---- MODULE Spec2Model ----
(***************************************************************************)
(* State-machine model of the ROTATER climate dashboard:                   *)
(*   - IntroGlobe  (src/unnamed/part_001): the rotating intro globe,       *)
(*   - MapViz      (src/unnamed/part_000): the static map renderer,        *)
(*   - Dashboard   (src/components/ChatAssistant.tsx, lines 122-525),      *)
(*   - getClimateInsights (src/services/geminiService.ts).                 *)
(* Each component has its own specification over the shared variables:     *)
(* SpecGlobe, SpecMap, SpecDash.                                           *)
(*                                                                         *)
(* Angles of the globe are integers in tenths of a degree.  Geographic     *)
(* coordinates are integers in units of 1e-4 degree.                       *)
(***************************************************************************)
EXTENDS Integers, Sequences, FiniteSets, TLC

VARIABLES
    \* ---- IntroGlobe (part_001) ----
    window,         \* <<innerWidth, innerHeight>> of the browser window
    width,          \* let width   (part_001:18)
    height,         \* let height  (part_001:19)
    canvasSize,     \* <<canvas.width, canvas.height>>
    projGlobe,      \* the orthographic projection: [scale10, translate2, rotate]
    rotation,       \* let rotation (part_001:40), tenths of a degree
    isRunning,      \* let isRunning (part_001:41)
    resizeListener, \* handleResize is registered on window
    rafPending,     \* number of frame callbacks scheduled and not yet run
    rafCalls,       \* number of requestAnimationFrame calls made so far
    drawCalls,      \* number of frames drawn so far (clearRect .. stroke)
    resizeCount,    \* number of resize events handled so far
    \* ---- MapViz (part_000) ----
    svgSize,        \* <<clientWidth, clientHeight>> of the svg element
    layers,         \* the <g> elements now in the svg, oldest first
    geoFetches,     \* feature-geometry fetches in flight
    geoFailures,    \* fetch promise chains that ended rejected (unhandled)
    effectRuns,     \* number of runs of the MapViz effect so far
    lastClick,      \* the latest click on the svg and what it led to
    lastSearch,     \* when the latest step was Enter in the search box: its text
    \* ---- Dashboard (ChatAssistant.tsx:131-148) ----
    lat,            \* useState lat, 1e-4 degree
    lon,            \* useState lon, 1e-4 degree
    startYear, endYear,
    data,           \* useState data: the dataset, a sequence of samples
    calamities,     \* useState calamities: the event history
    loading,        \* useState loading (main analysis)
    prediction,     \* useState prediction: the AI summary, or null
    analyzing,      \* useState analyzing
    news, newsLoading, resources, resourcesLoading,
    refreshes,      \* loadData calls suspended at an await: [id, pc, stats]
    refreshCount,   \* loadData calls started so far
    lookups,        \* fetchNews / fetchResources calls suspended at their await:
                    \* [id, kind, after], after = refreshes started before it
    lookupCount,    \* lookups started so far
    rejections,     \* loadData promises that rejected (unhandled)
    renderPending,  \* updates of an AI continuation are queued, the render not yet run
    crashed,        \* the Dashboard's render threw: React unmounted the tree
    lastAi,         \* when the latest step settled an AI call: [id, outcome, stats]
    lastExport,     \* when the latest step was an export click: what it produced
    \* ---- ChatAssistant (ChatAssistant.tsx:7-15) ----
    isOpen,         \* useState isOpen
    messages,       \* useState messages: [role, text], oldest first
    input,          \* useState input: the text in the input box
    isTyping,       \* useState isTyping
    chatSession,    \* chatSessionRef.current is set
    chatRequests,   \* sendMessage calls in flight: [id, message]
    sendCount       \* sends accepted so far

globeVars == <<window, width, height, canvasSize, projGlobe, rotation, isRunning,
               resizeListener, rafPending, rafCalls, drawCalls, resizeCount>>

mapVars == <<svgSize, layers, geoFetches, geoFailures, effectRuns, lastClick>>

pointVars == <<lat, lon>>

searchVars == <<lastSearch>>

dashVars == <<startYear, endYear, data, calamities, loading, prediction, analyzing,
              news, newsLoading, resources, resourcesLoading, refreshes, refreshCount,
              lookups, lookupCount, rejections, renderPending, crashed, lastAi,
              lastExport>>

chatVars == <<isOpen, messages, input, isTyping, chatSession, chatRequests, sendCount>>

nonGlobeVars == <<mapVars, pointVars, searchVars, dashVars, chatVars>>

nonChatVars == <<globeVars, mapVars, pointVars, searchVars, dashVars>>

vars == <<globeVars, mapVars, pointVars, searchVars, dashVars, chatVars>>

(***************************************************************************)
(* IntroGlobe                                                              *)
(***************************************************************************)

\* Frames drawn in one behaviour (the code's loop is unbounded).
MaxFrames == 1803
\* Resize events in one behaviour.
MaxResizes == 2

\* rotation += 0.2, in tenths of a degree.
Increment == 2
\* 360 degrees in tenths of a degree.
FullTurn == 360 * 10

\* Window sizes the browser may report.
WindowSizes == {<<800, 600>>, <<1000, 500>>, <<640, 480>>}

\* d3 projection.scale(height / 2.5).translate([width / 2, height / 2]);
\* scale is kept times ten (height / 2.5 * 10 = height * 4), translate times two.
SetProjection(p, w, h) == [p EXCEPT !.scale10 = h * 4, !.translate2 = <<w, h>>]

\* d3 projection.rotate([lambda, phi]): d3 keeps lambda modulo 360 degrees
\* (deltaLambda = _[0] % 360 * radians).
ProjRotate(p, lambda) == [p EXCEPT !.rotate = lambda % FullTurn]

\* The state after the mount effect has run: the first render() call has drawn
\* one frame and scheduled the next, then handleResize() has been called once.
GlobeInit ==
    /\ window \in WindowSizes
    /\ width = window[1]
    /\ height = window[2]
    /\ canvasSize = window
    /\ rotation = Increment
    /\ projGlobe = SetProjection(ProjRotate([scale10 |-> 0, translate2 |-> <<0, 0>>,
                                             rotate |-> 0], Increment),
                                 window[1], window[2])
    /\ isRunning = TRUE
    /\ resizeListener = TRUE
    /\ rafPending = 1
    /\ rafCalls = 1
    /\ drawCalls = 1
    /\ resizeCount = 0

\* A variant of render that draws without checking the liveness flag.
render_NoLivenessCheck ==
    /\ UNCHANGED nonGlobeVars
    /\ rafPending > 0
    /\ drawCalls < MaxFrames
    /\ drawCalls' = drawCalls + 1
    /\ rotation' = rotation + Increment
    /\ projGlobe' = ProjRotate(projGlobe, rotation + Increment)
    /\ rafCalls' = rafCalls + 1
    /\ rafPending' = rafPending - 1 + 1
    /\ UNCHANGED <<window, width, height, canvasSize, isRunning, resizeListener,
                   resizeCount>>

\* A variant of render whose rotation step depends on the time since the last
\* frame (one or two refresh intervals).
render_TimeDriven ==
    /\ UNCHANGED nonGlobeVars
    /\ rafPending > 0
    /\ IF ~isRunning
       THEN /\ rafPending' = rafPending - 1
            /\ UNCHANGED <<window, width, height, canvasSize, projGlobe, rotation,
                           isRunning, resizeListener, rafCalls, drawCalls, resizeCount>>
       ELSE /\ drawCalls < MaxFrames
            /\ \E elapsed \in {1, 2} :
                  /\ rotation' = rotation + Increment * elapsed
                  /\ projGlobe' = ProjRotate(projGlobe, rotation + Increment * elapsed)
            /\ drawCalls' = drawCalls + 1
            /\ rafCalls' = rafCalls + 1
            /\ rafPending' = rafPending - 1 + 1
            /\ UNCHANGED <<window, width, height, canvasSize, isRunning,
                           resizeListener, resizeCount>>

\* A scheduled frame callback runs: render().
render ==
    /\ UNCHANGED nonGlobeVars
    /\ rafPending > 0
    /\ IF ~isRunning
       THEN \* if (!isRunning) return;
            /\ rafPending' = rafPending - 1
            /\ UNCHANGED <<window, width, height, canvasSize, projGlobe, rotation,
                           isRunning, resizeListener, rafCalls, drawCalls, resizeCount>>
       ELSE /\ drawCalls < MaxFrames
            \* clearRect, stars, ... : one frame drawn
            /\ drawCalls' = drawCalls + 1
            \* rotation += 0.2; projection.rotate([rotation, -15]);
            /\ rotation' = rotation + Increment
            /\ projGlobe' = ProjRotate(projGlobe, rotation + Increment)
            \* requestAnimationFrame(render);
            /\ rafCalls' = rafCalls + 1
            /\ rafPending' = rafPending - 1 + 1
            /\ UNCHANGED <<window, width, height, canvasSize, isRunning,
                           resizeListener, resizeCount>>

\* A variant of handleResize that restarts the loop: it requests a frame.
handleResize_StartsLoop ==
    /\ resizeCount < MaxResizes
    /\ \E sz \in WindowSizes :
          /\ sz # window
          /\ window' = sz
          /\ IF resizeListener
             THEN /\ width' = sz[1]
                  /\ height' = sz[2]
                  /\ canvasSize' = sz
                  /\ projGlobe' = SetProjection(projGlobe, sz[1], sz[2])
                  /\ rafCalls' = rafCalls + 1
                  /\ rafPending' = rafPending + 1
             ELSE UNCHANGED <<width, height, canvasSize, projGlobe, rafCalls, rafPending>>
    /\ resizeCount' = resizeCount + 1
    /\ UNCHANGED <<rotation, isRunning, resizeListener, drawCalls>>
    /\ UNCHANGED nonGlobeVars

\* The browser window is resized; handleResize runs if it is still registered.
handleResize ==
    /\ resizeCount < MaxResizes
    /\ \E sz \in WindowSizes :
          /\ sz # window
          /\ window' = sz
          /\ IF resizeListener
             THEN /\ width' = sz[1]
                  /\ height' = sz[2]
                  /\ canvasSize' = sz
                  /\ projGlobe' = SetProjection(projGlobe, sz[1], sz[2])
             ELSE UNCHANGED <<width, height, canvasSize, projGlobe>>
    /\ resizeCount' = resizeCount + 1
    /\ UNCHANGED <<rotation, isRunning, resizeListener, rafPending, rafCalls, drawCalls>>
    /\ UNCHANGED nonGlobeVars

\* The effect's cleanup: the component is unmounted.
GlobeUnmount ==
    /\ isRunning
    /\ isRunning' = FALSE
    /\ resizeListener' = FALSE
    /\ UNCHANGED <<window, width, height, canvasSize, projGlobe, rotation,
                   rafPending, rafCalls, drawCalls, resizeCount>>
    /\ UNCHANGED nonGlobeVars


(***************************************************************************)
(* MapViz                                                                  *)
(***************************************************************************)

\* Runs of the MapViz effect in one behaviour.
MaxEffects == 3

\* 6.3 radians in units of 1e-4 degree: the projection's scale is width / 6.3
\* pixels per radian, so the svg's width spans this many units.
ScaleSpan == 3609634
\* One degree, in units of 1e-4 degree.
Deg == 100 * 100

\* useState defaults of the Dashboard (India centre).
InitLat == 205937
InitLon == 789629

\* Sizes of the svg element: the Dashboard gives it the height h-96 (384 px).
SvgSizes == {<<376, 384>>, <<752, 384>>}

\* Pixels at which the user may click.
ClickXs == {0, 100, 188, 300, 376, 700}
ClickYs == {0, 96, 192, 270, 285, 286, 330, 383}

None == <<>>
NoSearch == <<"none">>
NoClick == [x |-> -1, y |-> -1, hit |-> FALSE, called |-> FALSE, args |-> None]

\* The country outlines of the fetched topology, as boxes in 1e-4 degree
\* (Africa, Antarctica down to the pole, Asia up to the antimeridian).
Features ==
    { [lonMin |-> -17 * Deg,  lonMax |-> 51 * Deg,  latMin |-> -35 * Deg, latMax |-> 37 * Deg],
      [lonMin |-> -180 * Deg, lonMax |-> 180 * Deg, latMin |-> -90 * Deg, latMax |-> -60 * Deg],
      [lonMin |-> 60 * Deg,   lonMax |-> 180 * Deg, latMin |-> 5 * Deg,   latMax |-> 75 * Deg] }

\* d3.geoEquirectangular().scale(w / 6.3).translate([w / 2, h / 2]) applied to
\* [lon, lat]: x = w/2 + k*lon, y = h/2 - k*lat, rounded down to the pixel.
Project(lonv, latv, w, h) ==
    << (w \div 2) + ((lonv * w) \div ScaleSpan),
       (h \div 2) + (((-latv) * w) \div ScaleSpan) >>

\* The same coordinates rounded up to the pixel.
ProjectCeil(lonv, latv, w, h) ==
    << (w \div 2) - (((-lonv) * w) \div ScaleSpan),
       (h \div 2) - ((latv * w) \div ScaleSpan) >>

\* d3's rotation of the inverse: a longitude beyond 180 degrees is wrapped
\* (lambda -= round(lambda / tau) * tau).
WrapLon(l) ==
    IF l > 180 * Deg \/ l < -180 * Deg
    THEN l - ((l + 180 * Deg) \div (360 * Deg)) * (360 * Deg)
    ELSE l

\* projection.invert([x, y]): defined at every pixel for this projection.
Invert(x, y, w, h) ==
    [lon |-> WrapLon(((x - (w \div 2)) * ScaleSpan) \div w),
     lat |-> (((h \div 2) - y) * ScaleSpan) \div w]

\* A variant of OnPath for a click listener attached to the whole svg.
OnPath_WholeSvg(x, y, w, h) == TRUE

\* The pixel (x, y) lies on one of the drawn country paths: the click listener
\* is attached to the paths only.
OnPath(x, y, w, h) ==
    \E f \in Features :
        /\ ProjectCeil(f.lonMin, f.latMax, w, h)[1] <= x
        /\ x <= Project(f.lonMax, f.latMin, w, h)[1]
        /\ ProjectCeil(f.lonMin, f.latMax, w, h)[2] <= y
        /\ y <= Project(f.lonMax, f.latMin, w, h)[2]

\* The value parseFloat gives to a text with no decimal literal at its start.
NaN == 0 - 2000000000

\* A number is truthy unless it is 0 or NaN.
Truthy(v) == v # 0 /\ v # NaN

\* if (lat && lon) { const coords = projection([lon, lat]); if (coords) ... }
DrawMarker(latv, lonv, w, h) ==
    IF Truthy(latv) /\ Truthy(lonv) THEN Project(lonv, latv, w, h) ELSE None

\* handleLocationSelect(newLat, newLon) of the Dashboard.
HandleLocationSelect(newLat, newLon) ==
    /\ lat' = newLat
    /\ lon' = newLon

\* One run of the MapViz effect for the props (latv, lonv): the svg is cleared
\* and a feature-geometry fetch is started; nothing is cancelled.
RunEffect(latv, lonv) ==
    /\ effectRuns < MaxEffects
    /\ effectRuns' = effectRuns + 1
    /\ layers' = <<>>
    /\ geoFetches' = geoFetches \cup
                       {[id |-> effectRuns + 1, lat |-> latv, lon |-> lonv,
                         w |-> svgSize[1], h |-> svgSize[2]]}

\* The state after MapViz has mounted: the effect has run once.
MapInit ==
    /\ svgSize \in SvgSizes
    /\ lat = InitLat
    /\ lon = InitLon
    /\ layers = <<>>
    /\ geoFetches = {[id |-> 1, lat |-> InitLat, lon |-> InitLon,
                      w |-> svgSize[1], h |-> svgSize[2]]}
    /\ geoFailures = 0
    /\ effectRuns = 1
    /\ lastClick = NoClick
    /\ lastSearch = NoSearch

\* A fetch resolves with the topology: a <g> with the country paths and the
\* marker of the point captured by that effect run is appended to the svg.
GeoFetchDone ==
    \E f \in geoFetches :
        /\ geoFetches' = geoFetches \ {f}
        /\ layers' = Append(layers, [id |-> f.id, lat |-> f.lat, lon |-> f.lon,
                                     w |-> f.w, h |-> f.h,
                                     marker |-> DrawMarker(f.lat, f.lon, f.w, f.h)])
        /\ lastSearch' = NoSearch
        /\ UNCHANGED <<svgSize, geoFailures, effectRuns, lastClick, pointVars, dashVars,
                       chatVars, globeVars>>

\* A variant of GeoFetchFail that issues the fetch again.
GeoFetchFail_Retry ==
    \E f \in geoFetches :
        /\ geoFailures' = geoFailures + 1
        /\ lastSearch' = NoSearch
        /\ UNCHANGED <<svgSize, layers, geoFetches, effectRuns, lastClick, pointVars,
                       dashVars, chatVars, globeVars>>

\* A fetch rejects, response.json() rejects, or feature(topology, ...) throws on
\* a body that is not a topology: the promise chain has no catch, so the
\* rejection is unhandled and the callback appends nothing.
GeoFetchFail ==
    \E f \in geoFetches :
        /\ geoFetches' = geoFetches \ {f}
        /\ geoFailures' = geoFailures + 1
        /\ lastSearch' = NoSearch
        /\ UNCHANGED <<svgSize, layers, effectRuns, lastClick, pointVars, dashVars,
                       chatVars, globeVars>>

\* The user clicks the svg at pixel (x, y).  The listener of the topmost layer's
\* paths runs when the pixel is on a path; it inverts the pixel and reports
\* (lat, lon).  A changed point re-renders MapViz, which re-runs its effect.
MapClick ==
    \E x \in ClickXs, y \in ClickYs :
        /\ x < svgSize[1]
        /\ y < svgSize[2]
        /\ LET hit == /\ Len(layers) > 0
                      /\ OnPath(x, y, layers[Len(layers)].w, layers[Len(layers)].h)
               coords == Invert(x, y, layers[Len(layers)].w, layers[Len(layers)].h)
           IN  IF hit
               THEN /\ lastClick' = [x |-> x, y |-> y, hit |-> TRUE, called |-> TRUE,
                                     args |-> <<coords.lat, coords.lon>>]
                    /\ HandleLocationSelect(coords.lat, coords.lon)
                    /\ IF coords.lat # lat \/ coords.lon # lon
                       THEN RunEffect(coords.lat, coords.lon)
                       ELSE UNCHANGED <<layers, geoFetches, effectRuns>>
               ELSE /\ lastClick' = [x |-> x, y |-> y, hit |-> FALSE, called |-> FALSE,
                                     args |-> None]
                    /\ UNCHANGED <<layers, geoFetches, effectRuns, pointVars>>
        /\ lastSearch' = NoSearch
        /\ UNCHANGED <<svgSize, geoFailures, dashVars, chatVars, globeVars>>

\* The Dashboard re-renders for another reason (a flag, the dataset): it passes
\* a new handleLocationSelect function, so the MapViz effect re-runs.
DashboardRerender ==
    /\ RunEffect(lat, lon)
    /\ lastSearch' = NoSearch
    /\ UNCHANGED <<svgSize, geoFailures, lastClick, pointVars, dashVars, chatVars, globeVars>>


(***************************************************************************)
(* getClimateInsights (geminiService.ts)                                   *)
(***************************************************************************)

\* JavaScript values: null, and objects as records that may lack fields.
Null == [type |-> "null"]
EmptyObject == [type |-> "object"]

HasField(o, f) == f \in DOMAIN o

\* The four outcomes of ai.models.generateContent and of reading its text.
AiOutcomes == {"ok", "empty_text", "malformed", "reject"}

\* The object of the catch block.
Fallback ==
    [type |-> "object",
     summary |-> [text |-> "AI Analysis unavailable. Displaying raw data only.",
                  basis |-> <<>>],
     predictions |-> << [month |-> "Next Month", riskLevel |-> "Medium",
                         predictedTemp |-> 0,
                         description |-> "Prediction unavailable"] >>]

\* stats.slice(-24)
Slice24(stats) ==
    IF Len(stats) <= 24 THEN stats ELSE SubSeq(stats, Len(stats) - 23, Len(stats))

\* The object a well-formed response text parses to: its summary is about the
\* window of samples that was sent.
WellFormed(stats) ==
    [type |-> "object",
     summary |-> [text |-> "Recent trends", basis |-> Slice24(stats)],
     predictions |-> << [month |-> "Jan", riskLevel |-> "High", predictedTemp |-> 31,
                         description |-> "Heat stress"],
                        [month |-> "Feb", riskLevel |-> "Low", predictedTemp |-> 24,
                         description |-> "Normal"] >>]

\* getClimateInsights: JSON.parse(response.text || "{}") inside try, the fixed
\* object from catch.
getClimateInsights(outcome, stats) ==
    CASE outcome = "ok"         -> WellFormed(stats)
      [] outcome = "empty_text" -> EmptyObject
      [] outcome = "malformed"  -> Fallback
      [] outcome = "reject"     -> Fallback

(***************************************************************************)
(* Text formatting.  A text is a sequence of tokens; numbers are formatted   *)
(* digit by digit.  Sample fields are integers in thousandths.              *)
(***************************************************************************)

Digits == <<"0", "1", "2", "3", "4", "5", "6", "7", "8", "9">>

RECURSIVE NatToText(_)
NatToText(n) ==
    IF n < 10 THEN <<Digits[n + 1]>>
    ELSE NatToText(n \div 10) \o <<Digits[(n % 10) + 1]>>

Abs(v) == IF v < 0 THEN -v ELSE v

\* Number.prototype.toFixed(2) of v thousandths: the sign of a negative number,
\* then the magnitude rounded to hundredths (a tie goes up), two decimals.
toFixed2(v) ==
    LET n == (Abs(v) + 5) \div 10
    IN  (IF v < 0 THEN <<"-">> ELSE <<>>)
          \o NatToText(n \div 100) \o <<".">>
          \o <<Digits[((n \div 10) % 10) + 1], Digits[(n % 10) + 1]>>

\* Array.prototype.join
RECURSIVE Join(_, _)
Join(parts, sep) ==
    IF Len(parts) = 0 THEN <<>>
    ELSE IF Len(parts) = 1 THEN parts[1]
    ELSE parts[1] \o <<sep>> \o Join(Tail(parts), sep)

\* String.prototype.split: the parts of a text between the separator tokens.
RECURSIVE Split(_, _)
Split(text, sep) ==
    IF \A k \in 1..Len(text) : text[k] # sep
    THEN <<text>>
    ELSE LET k == CHOOSE j \in 1..Len(text) :
                     text[j] = sep /\ \A m \in 1..(j - 1) : text[m] # sep
         IN  <<SubSeq(text, 1, k - 1)>> \o Split(SubSeq(text, k + 1, Len(text)), sep)

IsDigit(c) == \E d \in 1..10 : Digits[d] = c

DigitVal(c) == (CHOOSE d \in 1..10 : Digits[d] = c) - 1

RECURSIVE ParseNat(_)
ParseNat(txt) ==
    IF Len(txt) = 0 THEN 0
    ELSE 10 * ParseNat(SubSeq(txt, 1, Len(txt) - 1)) + DigitVal(txt[Len(txt)])

\* The longest prefix of txt made of decimal digits.
RECURSIVE DigitRun(_)
DigitRun(txt) ==
    IF Len(txt) > 0 /\ IsDigit(txt[1]) THEN <<txt[1]>> \o DigitRun(Tail(txt)) ELSE <<>>

\* txt without its leading white space.
RECURSIVE TrimStart(_)
TrimStart(txt) ==
    IF Len(txt) > 0 /\ txt[1] = " " THEN TrimStart(Tail(txt)) ELSE txt

\* The first four decimals of a digit run, as an integer (1e-4 units).
Frac4(ds) ==
    ParseNat(SubSeq(ds \o <<"0", "0", "0", "0">>, 1, 4))

\* parseFloat, in 1e-4 units: leading white space is skipped, then the longest
\* prefix of the form [+-] digits [. digits] or [+-] . digits is converted and
\* whatever follows is ignored; with no such prefix the result is NaN.  (The
\* exponent part and Infinity are outside the alphabet of the inputs.)
parseFloat(txt) ==
    LET t    == TrimStart(txt)
        neg  == Len(t) > 0 /\ t[1] = "-"
        body == IF Len(t) > 0 /\ (t[1] = "-" \/ t[1] = "+") THEN Tail(t) ELSE t
        ip   == DigitRun(body)
        rest == SubSeq(body, Len(ip) + 1, Len(body))
        fp   == IF Len(rest) > 0 /\ rest[1] = "." THEN DigitRun(Tail(rest)) ELSE <<>>
        mag  == ParseNat(ip) * Deg + Frac4(fp)
    IN  IF Len(ip) = 0 /\ Len(fp) = 0 THEN NaN
        ELSE IF neg THEN -mag ELSE mag

\* const headers = ['Date', 'Temperature (C)', 'Rainfall (mm)', 'NDVI', 'Anomaly']
headers == << <<"Date">>, <<"Temperature (C)">>, <<"Rainfall (mm)">>, <<"NDVI">>,
              <<"Anomaly">> >>

\* A variant of CsvRow with the rainfall and NDVI columns exchanged.
CsvRow_Swapped(row) ==
    Join(<<row.date, toFixed2(row.temperature), toFixed2(row.ndvi),
           toFixed2(row.rainfall), toFixed2(row.anomaly)>>, ",")

\* `${row.date},${row.temperature.toFixed(2)},...`
CsvRow(row) ==
    Join(<<row.date, toFixed2(row.temperature), toFixed2(row.rainfall),
           toFixed2(row.ndvi), toFixed2(row.anomaly)>>, ",")

\* [headers.join(','), ...data.map(row => ...)].join('\n')
csvContent(rows) ==
    Join(<<Join(headers, ",")>> \o [i \in 1..Len(rows) |-> CsvRow(rows[i])], "\n")

\* String.prototype.toUpperCase on the risk levels.
toUpperCase(str) ==
    CASE str = "Low" -> "LOW" [] str = "Medium" -> "MEDIUM"
      [] str = "High" -> "HIGH" [] str = "Critical" -> "CRITICAL"
      [] OTHER -> str

(***************************************************************************)
(* Dashboard                                                               *)
(***************************************************************************)

\* Refreshes (loadData calls) in one behaviour, the one at mount included.
MaxRefreshes == 2
\* News and resource lookups in one behaviour.
MaxLookups == 1

\* Time-series samples a fetch may return.
Sample1 == [date |-> <<"2023-01">>, temperature |-> 21500, rainfall |-> 3200,
            ndvi |-> 410, anomaly |-> -300]
Sample2 == [date |-> <<"2023-02">>, temperature |-> 12346, rainfall |-> 0,
            ndvi |-> 125, anomaly |-> -1]
Sample3 == [date |-> <<"2023-03">>, temperature |-> -5250, rainfall |-> 99996,
            ndvi |-> 999, anomaly |-> 1500]

\* Datasets fetchClimateData may resolve with.
Datasets == { <<>>, <<Sample1>>, <<Sample2, Sample3>> }

\* The ways the promise of fetchClimateData (nasaService) may settle: a network
\* call resolves or rejects.
FetchClimateOutcomes == {"resolve", "reject"}

\* Event histories fetchCalamityHistory may return.
CalamityLists == { <<>>, <<[year |-> 2021, type |-> "Flood", intensity |-> "Severe"]>> }

\* Points the map renderer may report.
SelectPoints == { <<InitLat, InitLon>>, <<-337500, 1512500>> }

\* Results of getLocalNews and getNearbyResources (their own catch included).
NewsResults ==
    { [summary |-> "Flood warnings issued.",
       sources |-> <<[title |-> "Met office", uri |-> "https://example.org/a"]>>],
      [summary |-> "Could not fetch news.", sources |-> <<>>] }
MapResults ==
    { [answer |-> "Two shelters nearby.",
       points |-> <<[title |-> "Shelter", uri |-> "https://example.org/b"]>>],
      [answer |-> "Could not fetch resources.", points |-> <<>>] }

NoExport == [op |-> "none", notice |-> "", artifact |-> <<>>, threw |-> FALSE]
NoAi == [id |-> 0, outcome |-> "none", stats |-> <<>>]

\* The Dashboard's render throws when it reaches prediction.predictions.map on
\* an object without predictions (the AI Insights panel, shown when not analyzing).
RenderThrows(analyzingv, predictionv) ==
    /\ ~analyzingv
    /\ predictionv # Null
    /\ ~HasField(predictionv, "predictions")

\* The state after the Dashboard has mounted: the initial-load effect has called
\* loadData, which runs up to its first await.
DashInit ==
    /\ startYear = 2020
    /\ endYear = 2023
    /\ data = <<>>
    /\ calamities = <<>>
    /\ loading = TRUE
    /\ prediction = Null
    /\ analyzing = TRUE
    /\ news = Null
    /\ newsLoading = FALSE
    /\ resources = Null
    /\ resourcesLoading = FALSE
    /\ refreshes = {[id |-> 1, pc |-> "fetch", stats |-> <<>>]}
    /\ refreshCount = 1
    /\ lookups = {}
    /\ lookupCount = 0
    /\ rejections = 0
    /\ renderPending = FALSE
    /\ crashed = FALSE
    /\ lastAi = NoAi
    /\ lastExport = NoExport

\* loadData up to `await fetchClimateData(...)`.
loadDataStart ==
    /\ refreshCount < MaxRefreshes
    /\ loading' = TRUE
    /\ analyzing' = TRUE
    /\ news' = Null
    /\ resources' = Null
    /\ refreshes' = refreshes \cup {[id |-> refreshCount + 1, pc |-> "fetch",
                                     stats |-> <<>>]}
    /\ refreshCount' = refreshCount + 1

\* The user clicks ANALYZE (disabled while loading).  The browser may dispatch
\* the click before the render that an AI continuation has queued; the button
\* reads loading, which that continuation did not set.
Analyze ==
    /\ ~crashed
    /\ ~loading
    /\ loadDataStart
    /\ lastAi' = NoAi
    /\ lastExport' = NoExport
    /\ UNCHANGED <<startYear, endYear, data, calamities, prediction, newsLoading,
                   resourcesLoading, lookups, lookupCount, rejections, renderPending, crashed,
                   pointVars, mapVars, searchVars, chatVars, globeVars>>

\* fetchClimateData resolves: loadData from setData(stats) to the call of
\* getClimateInsights.
FetchClimateResolve ==
    \E r \in refreshes, stats \in Datasets, events \in CalamityLists :
        /\ ~crashed
        /\ ~renderPending
        /\ r.pc = "fetch"
        /\ data' = stats
        /\ calamities' = events
        /\ loading' = FALSE
        /\ refreshes' = (refreshes \ {r}) \cup {[r EXCEPT !.pc = "ai", !.stats = stats]}
        /\ lastAi' = NoAi
        /\ lastExport' = NoExport
        /\ UNCHANGED <<startYear, endYear, prediction, analyzing, news, newsLoading,
                       resources, resourcesLoading, refreshCount, lookups, lookupCount,
                       rejections, renderPending, crashed, pointVars, mapVars,
                       searchVars, chatVars, globeVars>>

\* fetchClimateData rejects: loadData has no try around the await, so none of
\* its statements after line 157 runs and its promise rejects unhandled.
FetchClimateReject ==
    \E r \in refreshes :
        /\ "reject" \in FetchClimateOutcomes
        /\ ~crashed
        /\ ~renderPending
        /\ r.pc = "fetch"
        /\ refreshes' = refreshes \ {r}
        /\ rejections' = rejections + 1
        /\ lastAi' = NoAi
        /\ lastExport' = NoExport
        /\ UNCHANGED <<startYear, endYear, data, calamities, loading, prediction,
                       analyzing, news, newsLoading, resources, resourcesLoading,
                       refreshCount, lookups, lookupCount, renderPending, crashed, pointVars, mapVars, searchVars, chatVars, globeVars>>

\* A variant of InsightsSettle that clears the dataset when the object stored is
\* the fallback.
InsightsSettle_ClearsData ==
    \E r \in refreshes, outcome \in AiOutcomes :
        /\ ~crashed
        /\ ~renderPending
        /\ r.pc = "ai"
        /\ LET insights == getClimateInsights(outcome, r.stats)
           IN  /\ prediction' = insights
               /\ analyzing' = FALSE
               /\ data' = IF insights = Fallback THEN <<>> ELSE data
               /\ renderPending' = TRUE
               /\ crashed' = crashed
        /\ refreshes' = refreshes \ {r}
        /\ lastAi' = [id |-> r.id, outcome |-> outcome, stats |-> r.stats]
        /\ lastExport' = NoExport
        /\ UNCHANGED <<startYear, endYear, calamities, loading, news, newsLoading,
                       resources, resourcesLoading, refreshCount, lookups, lookupCount,
                       rejections, pointVars, mapVars, searchVars, chatVars, globeVars>>

\* The AI call of a refresh settles: getClimateInsights returns, then
\* setPrediction(insights); setAnalyzing(false).  React queues the two updates
\* of the continuation and renders them in a later task.
InsightsSettle ==
    \E r \in refreshes, outcome \in AiOutcomes :
        /\ ~crashed
        /\ ~renderPending
        /\ r.pc = "ai"
        /\ LET insights == getClimateInsights(outcome, r.stats)
           IN  /\ prediction' = insights
               /\ analyzing' = FALSE
               /\ renderPending' = TRUE
               /\ crashed' = crashed
        /\ refreshes' = refreshes \ {r}
        /\ lastAi' = [id |-> r.id, outcome |-> outcome, stats |-> r.stats]
        /\ lastExport' = NoExport
        /\ UNCHANGED <<startYear, endYear, data, calamities, loading, news, newsLoading,
                       resources, resourcesLoading, refreshCount, lookups, lookupCount,
                       rejections, pointVars, mapVars, searchVars, chatVars, globeVars>>

\* A variant of MapSelect that reloads the data for the new point at once.
MapSelect_AutoReload ==
    \E p \in SelectPoints :
        /\ ~crashed
        /\ ~renderPending
        /\ HandleLocationSelect(p[1], p[2])
        /\ refreshCount < MaxRefreshes
        /\ loading' = TRUE
        /\ analyzing' = TRUE
        /\ news' = Null
        /\ resources' = Null
        /\ refreshes' = refreshes \cup {[id |-> refreshCount + 1, pc |-> "fetch",
                                         stats |-> <<>>]}
        /\ refreshCount' = refreshCount + 1
        /\ lastAi' = NoAi
        /\ lastExport' = NoExport
        /\ UNCHANGED <<startYear, endYear, data, calamities, prediction, newsLoading,
                       resourcesLoading, lookups, lookupCount, rejections, renderPending, crashed,
                       mapVars, searchVars, chatVars, globeVars>>

\* The map renderer reports a selected location: onLocationSelect(lat, lon) is
\* handleLocationSelect.  (What MapViz does with its new props is SpecMap's.)
MapSelect ==
    \E p \in SelectPoints :
        /\ ~crashed
        /\ ~renderPending
        /\ HandleLocationSelect(p[1], p[2])
        /\ lastAi' = NoAi
        /\ lastExport' = NoExport
        /\ UNCHANGED <<startYear, endYear, data, calamities, loading, prediction,
                       analyzing, news, newsLoading, resources, resourcesLoading,
                       refreshes, refreshCount, lookups, lookupCount, rejections,
                       renderPending, crashed, mapVars, searchVars, chatVars, globeVars>>

\* fetchNews up to `await getLocalNews(lat, lon)` (button disabled while loading).
fetchNews ==
    /\ ~crashed
    /\ ~renderPending
    /\ ~newsLoading
    /\ lookupCount < MaxLookups
    /\ newsLoading' = TRUE
    /\ lookups' = lookups \cup {[id |-> lookupCount + 1, kind |-> "news",
                                 after |-> refreshCount]}
    /\ lookupCount' = lookupCount + 1
    /\ lastAi' = NoAi
    /\ lastExport' = NoExport
    /\ UNCHANGED <<startYear, endYear, data, calamities, loading, prediction, analyzing,
                   news, resources, resourcesLoading, refreshes, refreshCount,
                   rejections, renderPending, crashed, pointVars, mapVars,
                   searchVars, chatVars, globeVars>>

\* getLocalNews returns: setNews(result); setNewsLoading(false).
NewsSettle ==
    \E t \in lookups, result \in NewsResults :
        /\ ~crashed
        /\ ~renderPending
        /\ t.kind = "news"
        /\ news' = [type |-> "object", summary |-> result.summary,
                    sources |-> result.sources]
        /\ newsLoading' = FALSE
        /\ lookups' = lookups \ {t}
        /\ lastAi' = NoAi
        /\ lastExport' = NoExport
        /\ UNCHANGED <<startYear, endYear, data, calamities, loading, prediction,
                       analyzing, resources, resourcesLoading, refreshes, refreshCount,
                       lookupCount, rejections, renderPending, crashed, pointVars,
                       mapVars, searchVars, chatVars, globeVars>>

\* fetchResources up to `await getNearbyResources(lat, lon)`.
fetchResources ==
    /\ ~crashed
    /\ ~renderPending
    /\ ~resourcesLoading
    /\ lookupCount < MaxLookups
    /\ resourcesLoading' = TRUE
    /\ lookups' = lookups \cup {[id |-> lookupCount + 1, kind |-> "resources",
                                 after |-> refreshCount]}
    /\ lookupCount' = lookupCount + 1
    /\ lastAi' = NoAi
    /\ lastExport' = NoExport
    /\ UNCHANGED <<startYear, endYear, data, calamities, loading, prediction, analyzing,
                   news, newsLoading, resources, refreshes, refreshCount, rejections,
                   renderPending, crashed, pointVars, mapVars, searchVars, chatVars, globeVars>>

\* getNearbyResources returns: setResources(result); setResourcesLoading(false).
ResourcesSettle ==
    \E t \in lookups, result \in MapResults :
        /\ ~crashed
        /\ ~renderPending
        /\ t.kind = "resources"
        /\ resources' = [type |-> "object", answer |-> result.answer,
                         points |-> result.points]
        /\ resourcesLoading' = FALSE
        /\ lookups' = lookups \ {t}
        /\ lastAi' = NoAi
        /\ lastExport' = NoExport
        /\ UNCHANGED <<startYear, endYear, data, calamities, loading, prediction,
                       analyzing, news, newsLoading, refreshes, refreshCount,
                       lookupCount, rejections, renderPending, crashed, pointVars,
                       mapVars, searchVars, chatVars, globeVars>>

\* The outcome of handleDownloadCSV on a dataset.
CsvExport(rows) ==
    IF Len(rows) = 0
    THEN [op |-> "csv", notice |-> "No data available to download.",
          artifact |-> <<>>, threw |-> FALSE]
    ELSE [op |-> "csv", notice |-> "", artifact |-> <<csvContent(rows)>>,
          threw |-> FALSE]

\* The user clicks Download: handleDownloadCSV.
handleDownloadCSV ==
    /\ ~crashed
    /\ ~renderPending
    /\ lastExport' = CsvExport(data)
    /\ lastAi' = NoAi
    /\ UNCHANGED <<startYear, endYear, data, calamities, loading, prediction, analyzing,
                   news, newsLoading, resources, resourcesLoading, refreshes,
                   refreshCount, lookups, lookupCount, rejections, renderPending, crashed, pointVars, mapVars, searchVars, chatVars, globeVars>>

\* The report text, line by line (the generation date is left out).
reportContent(pred, events, newsv, latv, lonv, y1, y2) ==
    << <<"ROTATER INTELLIGENCE REPORT">>,
       <<"Location: ", latv, lonv>>,
       <<"Date Range: ", y1, y2>>,
       <<"AI ANALYSIS SUMMARY">>,
       <<pred.summary>>,
       <<"RISK PREDICTIONS (Next 12 Months)">> >>
    \o [i \in 1..Len(pred.predictions) |->
          <<pred.predictions[i].month, toUpperCase(pred.predictions[i].riskLevel),
            pred.predictions[i].predictedTemp, pred.predictions[i].description>>]
    \o << <<"RECORDED CALAMITIES">> >>
    \o (IF Len(events) > 0
        THEN [i \in 1..Len(events) |->
                <<events[i].year, events[i].type, events[i].intensity>>]
        ELSE << <<"No significant calamities recorded in recent history or simulated data.">> >>)
    \o (IF newsv # Null
        THEN << <<"RECENT LOCAL NEWS">>, <<newsv.summary>> >>
             \o (IF Len(newsv.sources) > 0
                 THEN << <<"Sources:">> >>
                      \o [i \in 1..Len(newsv.sources) |->
                            <<newsv.sources[i].title, newsv.sources[i].uri>>]
                 ELSE <<>>)
        ELSE <<>>)

\* The outcome of handleExportReport: the notice when there is no prediction, a
\* TypeError when prediction.predictions is undefined, else the report.
ReportExport(pred, events, newsv, latv, lonv, y1, y2) ==
    IF pred = Null
    THEN [op |-> "report", notice |-> "Please run analysis first to generate a report.",
          artifact |-> <<>>, threw |-> FALSE]
    ELSE IF ~HasField(pred, "predictions")
    THEN [op |-> "report", notice |-> "", artifact |-> <<>>, threw |-> TRUE]
    ELSE [op |-> "report", notice |-> "",
          artifact |-> <<reportContent(pred, events, newsv, latv, lonv, y1, y2)>>,
          threw |-> FALSE]

\* The user clicks Export Report: handleExportReport.
handleExportReport ==
    /\ ~crashed
    /\ ~renderPending
    /\ lastExport' = ReportExport(prediction, calamities, news, lat, lon,
                                  startYear, endYear)
    /\ lastAi' = NoAi
    /\ UNCHANGED <<startYear, endYear, data, calamities, loading, prediction, analyzing,
                   news, newsLoading, resources, resourcesLoading, refreshes,
                   refreshCount, lookups, lookupCount, rejections, renderPending, crashed, pointVars, mapVars, searchVars, chatVars, globeVars>>

\* The queued render runs: the AI Insights panel is rendered unless analyzing,
\* and an exception thrown by the render unmounts the Dashboard.
Render ==
    /\ ~crashed
    /\ renderPending
    /\ renderPending' = FALSE
    /\ crashed' = RenderThrows(analyzing, prediction)
    /\ lastAi' = NoAi
    /\ lastExport' = NoExport
    /\ UNCHANGED <<startYear, endYear, data, calamities, loading, prediction, analyzing,
                   news, newsLoading, resources, resourcesLoading, refreshes,
                   refreshCount, lookups, lookupCount, rejections, pointVars, mapVars,
                   searchVars, chatVars, globeVars>>

\* Texts typed into the search box, character by character: "abc", "1,2,3",
\* "a,5", "95,200" and " 12.5,-7".
SearchInputs ==
    { <<"a", "b", "c">>,
      <<"1", ",", "2", ",", "3">>,
      <<"a", ",", "5">>,
      <<"9", "5", ",", "2", "0", "0">>,
      <<" ", "1", "2", ".", "5", ",", "-", "7">> }

\* Enter in the search box: the value is split at the commas and, when there
\* are two parts, setLat(parseFloat(parts[0])); setLon(parseFloat(parts[1])).
\* A changed point re-renders the Dashboard and MapViz, whose effect re-runs.
SearchKeyDown ==
    \E value \in SearchInputs :
        LET parts == Split(value, ",")
        IN  /\ ~crashed
            /\ lastSearch' = value
            /\ IF Len(parts) = 2
               THEN /\ lat' = parseFloat(parts[1])
                    /\ lon' = parseFloat(parts[2])
                    /\ IF lat' # lat \/ lon' # lon
                       THEN RunEffect(lat', lon')
                       ELSE UNCHANGED <<layers, geoFetches, effectRuns>>
               ELSE UNCHANGED <<lat, lon, layers, geoFetches, effectRuns>>
            /\ UNCHANGED <<svgSize, geoFailures, lastClick, dashVars, chatVars, globeVars>>

NextDash ==
    \/ Analyze \/ FetchClimateResolve \/ FetchClimateReject \/ InsightsSettle \/ Render
    \/ MapSelect \/ fetchNews \/ NewsSettle \/ fetchResources \/ ResourcesSettle
    \/ handleDownloadCSV \/ handleExportReport

(***************************************************************************)
(* ChatAssistant                                                           *)
(***************************************************************************)

\* Sends accepted in one behaviour.
MaxSends == 3

\* Texts typed into the chat input, character by character: "", " ", "hi" and
\* " ok".
ChatInputs == { <<>>, <<" ">>, <<"h", "i">>, <<" ", "o", "k">> }

\* Texts of a resolved sendMessage result: a reply, or no text.
ReplyTexts == { <<"r", "e">>, <<>> }

\* txt without its trailing white space.
RECURSIVE TrimEnd(_)
TrimEnd(txt) ==
    IF Len(txt) > 0 /\ txt[Len(txt)] = " "
    THEN TrimEnd(SubSeq(txt, 1, Len(txt) - 1))
    ELSE txt

\* String.prototype.trim
trim(txt) == TrimEnd(TrimStart(txt))

Greeting == <<"Hello! I am your Climate AI. Ask me about weather patterns or analysis.">>
CouldNotProcess == <<"I couldn't process that.">>
ChatError == <<"Sorry, I encountered an error.">>

\* The state of a mounted ChatAssistant.
ChatInit ==
    /\ isOpen = FALSE
    /\ messages = <<[role |-> "model", text |-> Greeting]>>
    /\ input = <<>>
    /\ isTyping = FALSE
    /\ chatSession = FALSE
    /\ chatRequests = {}
    /\ sendCount = 0

\* The floating button: setIsOpen(true); the effect then creates the session
\* when there is none.
ChatOpen ==
    /\ ~isOpen
    /\ isOpen' = TRUE
    /\ chatSession' = TRUE
    /\ UNCHANGED <<messages, input, isTyping, chatRequests, sendCount>>
    /\ UNCHANGED nonChatVars

\* The X button: setIsOpen(false).  The component stays mounted.
ChatClose ==
    /\ isOpen
    /\ isOpen' = FALSE
    /\ UNCHANGED <<messages, input, isTyping, chatSession, chatRequests, sendCount>>
    /\ UNCHANGED nonChatVars

\* onChange of the input: setInput(e.target.value).
ChatType ==
    \E v \in ChatInputs :
        /\ isOpen
        /\ v # input
        /\ input' = v
        /\ UNCHANGED <<isOpen, messages, isTyping, chatSession, chatRequests, sendCount>>
        /\ UNCHANGED nonChatVars

\* handleSend up to `await chatSessionRef.current.sendMessage(...)`.
handleSend ==
    IF Len(trim(input)) = 0 \/ ~chatSession
    THEN UNCHANGED <<input, messages, isTyping, chatRequests, sendCount>>
    ELSE /\ sendCount < MaxSends
         /\ input' = <<>>
         /\ messages' = Append(messages, [role |-> "user", text |-> input])
         /\ isTyping' = TRUE
         /\ chatRequests' = chatRequests \cup {[id |-> sendCount + 1, message |-> input]}
         /\ sendCount' = sendCount + 1

\* Enter in the input: onKeyDown={(e) => e.key === 'Enter' && handleSend()}.
SendEnter ==
    /\ isOpen
    /\ handleSend
    /\ UNCHANGED <<isOpen, chatSession>>
    /\ UNCHANGED nonChatVars

\* The send button: onClick={handleSend}, disabled={isTyping}.
SendClick ==
    /\ isOpen
    /\ ~isTyping
    /\ handleSend
    /\ UNCHANGED <<isOpen, chatSession>>
    /\ UNCHANGED nonChatVars

\* sendMessage resolves: the reply, or the stand-in for an empty text, is
\* appended as a model message; finally setIsTyping(false).
ChatReply ==
    \E r \in chatRequests, text \in ReplyTexts :
        /\ chatRequests' = chatRequests \ {r}
        /\ messages' = Append(messages,
                              [role |-> "model",
                               text |-> IF Len(text) > 0 THEN text ELSE CouldNotProcess])
        /\ isTyping' = FALSE
        /\ UNCHANGED <<isOpen, input, chatSession, sendCount>>
        /\ UNCHANGED nonChatVars

\* sendMessage rejects: the error text is appended; finally setIsTyping(false).
ChatReject ==
    \E r \in chatRequests :
        /\ chatRequests' = chatRequests \ {r}
        /\ messages' = Append(messages, [role |-> "model", text |-> ChatError])
        /\ isTyping' = FALSE
        /\ UNCHANGED <<isOpen, input, chatSession, sendCount>>
        /\ UNCHANGED nonChatVars

NextChat ==
    \/ ChatOpen \/ ChatClose \/ ChatType \/ SendEnter \/ SendClick
    \/ ChatReply \/ ChatReject

(***************************************************************************)
(* Specifications                                                          *)
(***************************************************************************)

Init == GlobeInit /\ MapInit /\ DashInit /\ ChatInit

NextGlobe == render \/ handleResize \/ GlobeUnmount

NextMap == GeoFetchDone \/ GeoFetchFail \/ MapClick \/ DashboardRerender

NextSearch == SearchKeyDown \/ MapClick \/ GeoFetchDone

\* The intro globe alone (the svg size is fixed).
InitGlobeOnly == Init /\ svgSize = <<376, 384>>
SpecGlobe == InitGlobeOnly /\ [][NextGlobe]_vars

\* The map renderer with the point it is given (the window size is fixed).
InitMapOnly == Init /\ window = <<800, 600>>
SpecMap == InitMapOnly /\ [][NextMap]_vars

\* The point of the container under searches and map selections (the window
\* and svg sizes are fixed).
InitSearchOnly == Init /\ window = <<800, 600>> /\ svgSize = <<376, 384>>
SpecSearch == InitSearchOnly /\ [][NextSearch]_vars

\* The view container (the window and svg sizes are fixed).
InitDashOnly == Init /\ window = <<800, 600>> /\ svgSize = <<376, 384>>
SpecDash == InitDashOnly /\ [][NextDash]_vars

\* The chat assistant (the window and svg sizes are fixed).
InitChatOnly == Init /\ window = <<800, 600>> /\ svgSize = <<376, 384>>
SpecChat == InitChatOnly /\ [][NextChat]_vars

(***************************************************************************)
(* Properties                                                              *)
(***************************************************************************)

\* C1: once the globe is unmounted (isRunning = FALSE), no step draws a frame or
\* schedules a frame again, the component never returns to RUNNING, and a frame
\* callback that was pending at the unmount is consumed without drawing.
C1_NoDrawAfterUnmount ==
    [][~isRunning => /\ drawCalls' = drawCalls
                     /\ rafCalls' = rafCalls
                     /\ rafPending' <= rafPending
                     /\ ~isRunning']_vars

\* C1 witness: the globe was unmounted after several frames and a resize, and the
\* frame callback that was pending at the unmount has run.
C1_Witness == ~isRunning /\ rafPending = 0 /\ drawCalls >= 3 /\ resizeCount >= 1

\* C7: the rotation applied to the projection equals (N * increment) mod 360,
\* N being the number of frames drawn since mount, whatever resizes occurred.
C7_RotationByFrameCount == projGlobe.rotate = (drawCalls * Increment) % FullTurn

\* C7 witness: more than a full turn of frames has been drawn, with resizes between.
C7_Witness ==
    /\ drawCalls * Increment > FullTurn
    /\ projGlobe.rotate = 4
    /\ resizeCount = MaxResizes

\* The pixel (x, y) is inside the projected map: its inverse, before any
\* wrapping, has a latitude in [-90, 90] and a longitude in [-180, 180].
InBounds(x, y, w, h) ==
    /\ (x - (w \div 2)) * ScaleSpan <= 180 * Deg * w
    /\ (x - (w \div 2)) * ScaleSpan >= -180 * Deg * w
    /\ ((h \div 2) - y) * ScaleSpan <= 90 * Deg * w
    /\ ((h \div 2) - y) * ScaleSpan >= -90 * Deg * w

\* C8: a click outside the projected map bounds never invokes the selection
\* callback; an invoked callback got (latitude, longitude), in that order, of
\* the clicked pixel: a latitude in [-90, 90] and a longitude in [-180, 180]
\* that project back to the clicked pixel (within the pixel rounding).
C8_ClickOutsideNeverSelects ==
    lastClick.called =>
        /\ InBounds(lastClick.x, lastClick.y, svgSize[1], svgSize[2])
        /\ lastClick.args[1] >= -90 * Deg /\ lastClick.args[1] <= 90 * Deg
        /\ lastClick.args[2] >= -180 * Deg /\ lastClick.args[2] <= 180 * Deg
        /\ LET p == Project(lastClick.args[2], lastClick.args[1], svgSize[1], svgSize[2])
           IN  Abs(p[1] - lastClick.x) <= 1 /\ Abs(p[2] - lastClick.y) <= 1

\* C8 witness: with a layer drawn and a selection made earlier, the latest click
\* was outside the projected bounds and invoked nothing.
C8_Witness ==
    /\ lastClick # NoClick
    /\ ~lastClick.called
    /\ ~InBounds(lastClick.x, lastClick.y, svgSize[1], svgSize[2])
    /\ Len(layers) > 0
    /\ lat # InitLat

\* All fetches have settled.
MapQuiet == geoFetches = {}

\* C9: once no fetch is in flight the drawing holds no more than one polygon
\* layer, and every layer in it was drawn for the current point.
C9_OneLayerForCurrentPoint ==
    MapQuiet =>
        /\ Len(layers) <= 1
        /\ \A i \in 1..Len(layers) : layers[i].lat = lat /\ layers[i].lon = lon

\* C10: the layer of every completed render pass holds the marker of its point,
\* at a pixel whose inverse projection is that point (within one pixel).
C10_MarkerAtPoint ==
    \A i \in 1..Len(layers) :
        /\ layers[i].marker # None
        /\ LET inv == Invert(layers[i].marker[1], layers[i].marker[2],
                             layers[i].w, layers[i].h)
               tol == (ScaleSpan \div layers[i].w) + 1
           IN  /\ Abs(inv.lat - layers[i].lat) <= tol
               /\ Abs(inv.lon - layers[i].lon) <= tol

(* ---- View container ---- *)

\* The container's state proper (the step logs and counters left out).
containerState ==
    <<lat, lon, startYear, endYear, data, calamities, loading, prediction, analyzing,
      news, newsLoading, resources, resourcesLoading>>

\* C2: the step in which a refresh's AI call is found rejected stores the fixed
\* fallback object as the AI summary, leaves the dataset as it is (the one that
\* refresh fetched, when no later refresh has started), and the refresh ends
\* normally: no rejected loadData promise, analyzing back to false, no crash.
C2_AiRejectionKeepsData ==
    [][lastAi'.outcome = "reject" =>
          /\ prediction' = Fallback
          /\ data' = data
          /\ (refreshCount' = lastAi'.id => data' = lastAi'.stats)
          /\ calamities' = calamities
          /\ rejections' = rejections
          /\ ~analyzing'
          /\ ~crashed'
          /\ ~RenderThrows(analyzing', prediction')]_vars

\* C2 witness: an AI call has just been found rejected while a non-empty dataset
\* is stored.
C2_Witness == lastAi.outcome = "reject" /\ data # <<>> /\ prediction = Fallback

\* C3: whatever the outcome of the AI call, the value stored as the AI summary
\* has a summary and a predictions list.
C3_SummaryNeverPartial ==
    lastAi # NoAi =>
        /\ prediction # Null
        /\ HasField(prediction, "summary")
        /\ HasField(prediction, "predictions")

\* C4: a step that changes the current point changes nothing else of the
\* container and starts no request; a refresh starts only from the enabled
\* Analyze control, with the point unchanged.
C4_SelectionChangesOnlyPoint ==
    [][/\ (lat' # lat \/ lon' # lon) =>
            UNCHANGED <<startYear, endYear, data, calamities, loading, prediction,
                        analyzing, news, newsLoading, resources, resourcesLoading,
                        refreshes, refreshCount, lookups, lookupCount, rejections>>
       /\ (refreshCount' # refreshCount) => (~loading /\ lat' = lat /\ lon' = lon)]_vars

\* C4 witness: the point was changed by a selection, and the only refresh ever
\* started is the one at mount, which has completed.
C4_Witness ==
    /\ lat # InitLat
    /\ refreshCount = 1
    /\ refreshes = {}
    /\ ~loading /\ ~analyzing

HeaderLine ==
    <<"Date", ",", "Temperature (C)", ",", "Rainfall (mm)", ",", "NDVI", ",", "Anomaly">>

\* txt is v (thousandths) in fixed notation with two decimals: an optional "-",
\* digits, ".", two digits, the magnitude being |v| rounded to hundredths.
IsFixed2(txt, v) ==
    LET neg == Len(txt) > 0 /\ txt[1] = "-"
        mag == IF neg THEN Tail(txt) ELSE txt
        n == Len(mag)
    IN  /\ neg <=> (v < 0)
        /\ n >= 4
        /\ mag[n - 2] = "."
        /\ \A k \in (1..n) \ {n - 2} : IsDigit(mag[k])
        /\ (n > 4 => mag[1] # "0")
        /\ LET hundredths == ParseNat(SubSeq(mag, 1, n - 3)) * 100
                                + ParseNat(SubSeq(mag, n - 1, n))
           IN  /\ hundredths * 10 - Abs(v) <= 5
               /\ Abs(v) - hundredths * 10 < 5

\* A CSV artifact: the header line and at least one data line of five fields.
WellFormedCsv(text) ==
    LET lines == Split(text, "\n")
    IN  /\ Len(lines) >= 2
        /\ lines[1] = HeaderLine
        /\ \A i \in 2..Len(lines) : Len(Split(lines[i], ",")) = 5

\* A report artifact: the fixed section headers, in order, and a summary line
\* that holds a summary.
WellFormedReport(linesv) ==
    /\ Len(linesv) >= 8
    /\ linesv[1] = <<"ROTATER INTELLIGENCE REPORT">>
    /\ linesv[4] = <<"AI ANALYSIS SUMMARY">>
    /\ "text" \in DOMAIN linesv[5][1]
    /\ linesv[6] = <<"RISK PREDICTIONS (Next 12 Months)">>
    /\ \E c \in 7..(Len(linesv) - 1) : linesv[c] = <<"RECORDED CALAMITIES">>

\* C5: a step that is an export click changes no container state; with its
\* prerequisite absent (no samples for the CSV, no AI summary for the report) it
\* gives a notice and no artifact; and in every case it gives either a notice
\* or exactly one well-formed artifact, and does not throw.
C5_ExportNoticeOrArtifact ==
    [][lastExport'.op # "none" =>
          /\ UNCHANGED containerState
          /\ UNCHANGED <<refreshes, lookups, renderPending, crashed>>
          /\ ~lastExport'.threw
          /\ (lastExport'.op = "csv" /\ Len(data) = 0) =>
                (lastExport'.notice # "" /\ lastExport'.artifact = <<>>)
          /\ (lastExport'.op = "report" /\ prediction = Null) =>
                (lastExport'.notice # "" /\ lastExport'.artifact = <<>>)
          /\ \/ lastExport'.notice # "" /\ lastExport'.artifact = <<>>
             \/ /\ lastExport'.notice = ""
                /\ Len(lastExport'.artifact) = 1
                /\ IF lastExport'.op = "csv"
                   THEN WellFormedCsv(lastExport'.artifact[1])
                   ELSE WellFormedReport(lastExport'.artifact[1])]_vars

\* C6: the CSV of a dataset of n >= 1 samples has n + 1 lines: the header, then
\* for the i-th sample a line of five comma-separated fields: its date, then its
\* temperature, rainfall, NDVI and anomaly in two-decimal fixed notation.
C6_CsvRows ==
    (lastExport.op = "csv" /\ Len(data) >= 1) =>
        /\ Len(lastExport.artifact) = 1
        /\ LET lines == Split(lastExport.artifact[1], "\n")
           IN  /\ Len(lines) = Len(data) + 1
               /\ lines[1] = HeaderLine
               /\ \A i \in 1..Len(data) :
                     LET f == Split(lines[i + 1], ",")
                     IN  /\ Len(f) = 5
                         /\ f[1] = data[i].date
                         /\ IsFixed2(f[2], data[i].temperature)
                         /\ IsFixed2(f[3], data[i].rainfall)
                         /\ IsFixed2(f[4], data[i].ndvi)
                         /\ IsFixed2(f[5], data[i].anomaly)

\* C6 witness: a CSV of a two-sample dataset has been produced.
C6_Witness ==
    /\ lastExport.op = "csv"
    /\ Len(data) = 2
    /\ Len(lastExport.artifact) = 1


(* ---- Static map: a failed geometry fetch ---- *)

\* C11: the step in which a feature-geometry fetch fails draws nothing (the svg
\* keeps the layers it had), issues no fetch (the fetches in flight are the
\* earlier ones without the failed one, and the effect has not run again), and
\* leaves the container's state, the point included, as it was.
C11_FetchFailureDrawsNothing ==
    [][geoFailures' # geoFailures =>
          /\ layers' = layers
          /\ geoFetches' \subseteq geoFetches
          /\ Cardinality(geoFetches') = Cardinality(geoFetches) - 1
          /\ effectRuns' = effectRuns
          /\ UNCHANGED containerState
          /\ UNCHANGED <<crashed, rejections, lastClick>>]_vars

\* C11 witness: a fetch has failed, nothing is in flight and the svg is empty.
C11_Witness == geoFailures > 0 /\ geoFetches = {} /\ layers = <<>>


(* ---- Coordinate search ---- *)

\* The text is a coordinate pair: two comma-separated parts, each a number.
IsCoordinatePair(value) ==
    /\ Len(Split(value, ",")) = 2
    /\ parseFloat(Split(value, ",")[1]) # NaN
    /\ parseFloat(Split(value, ",")[2]) # NaN

\* C12: a step that submits a text which is not a coordinate pair (the wrong
\* number of parts, or a part that is not a number) leaves the point and all
\* other state of the container and of the map as they were.
C12_UnparseableSearchIgnored ==
    [][(lastSearch' # NoSearch /\ ~IsCoordinatePair(lastSearch')) =>
          /\ lat' = lat
          /\ lon' = lon
          /\ UNCHANGED containerState
          /\ UNCHANGED <<layers, geoFetches, effectRuns>>]_vars

\* C13: the current point is a pair of numbers, the latitude within [-90, 90]
\* and the longitude within [-180, 180].
C13_PointInRange ==
    /\ lat # NaN /\ lon # NaN
    /\ -90 * Deg <= lat /\ lat <= 90 * Deg
    /\ -180 * Deg <= lon /\ lon <= 180 * Deg


(* ---- Rotating globe: the render loop ---- *)

\* C14: at most one frame callback is pending at every moment; a frame is
\* requested only by a step that has drawn a frame, one request per frame drawn;
\* and a resize step requests no frame and draws nothing.
C14_CooperativeLoop ==
    /\ rafPending <= 1
    /\ [][/\ rafPending' <= 1
          /\ (rafCalls' # rafCalls) =>
                (rafCalls' = rafCalls + 1 /\ drawCalls' = drawCalls + 1)
          /\ (resizeCount' # resizeCount) =>
                (rafCalls' = rafCalls /\ rafPending' = rafPending
                    /\ drawCalls' = drawCalls)]_vars

\* C14 witness: the loop is running with one frame pending after two resizes
\* and several frames.
C14_Witness ==
    /\ isRunning
    /\ resizeCount = MaxResizes
    /\ drawCalls > 3
    /\ rafPending = 1


(* ---- View container: the flags of a refresh ---- *)

\* C15: once every network call of every refresh has settled, the main loading
\* flag and the analyzing flag are both false (the Analyze control is enabled).
C15_SettledRefreshClearsFlags ==
    refreshes = {} => (~loading /\ ~analyzing)


(* ---- View container: overlapping refreshes ---- *)

\* An AI analysis request of some refresh is in flight.
AiInFlight == \E r \in refreshes : r.pc = "ai"

\* C16: analyzing is true whenever an AI analysis request is in flight; and once
\* every request of every refresh has settled, a stored summary that the AI
\* computed is the one computed from the stored dataset.
C16_SummaryOfCurrentDataset ==
    /\ AiInFlight => analyzing
    /\ (refreshes = {} /\ HasField(prediction, "summary") /\ prediction # Fallback) =>
          prediction.summary.basis = Slice24(data)


(* ---- View container: lookups across a refresh ---- *)

\* C17: a step that starts a refresh leaves the news and resource results
\* absent; and a step that stores a news (resource) result is the completion of
\* a news (resource) lookup that was started after the latest refresh started.
C17_StaleLookupNotStored ==
    [][/\ (refreshCount' # refreshCount) => (news' = Null /\ resources' = Null)
       /\ (news' # Null /\ news' # news) =>
             \E t \in lookups \ lookups' :
                 t.kind = "news" /\ t.after = refreshCount'
       /\ (resources' # Null /\ resources' # resources) =>
             \E t \in lookups \ lookups' :
                 t.kind = "resources" /\ t.after = refreshCount']_vars


(* ---- Chat assistant ---- *)

\* The number of messages of a role.
CountRole(role) == Cardinality({i \in 1..Len(messages) : messages[i].role = role})

\* C18: the typing indicator is on whenever a chat request is in flight; and
\* the model messages after the greeting are one for each user message whose
\* request has settled.
C18_TypingWhileInFlight ==
    /\ chatRequests # {} => isTyping
    /\ CountRole("model") - 1 + Cardinality(chatRequests) = CountRole("user")

====
